---- MODULE Spec2Model ----
(***************************************************************************)
(* Run lifecycle and event reconciliation of the spreadsheet enrichment    *)
(* page (src/app/page.tsx): the React state of Page, the async steps of    *)
(* enrich and cancelEnrichment, the EventSource listeners, the 10-minute   *)
(* timer, and applyRowResult with its header resolution.                   *)
(*                                                                         *)
(* Strings that the code inspects character by character (headers, output  *)
(* keys, cell values) are sequences of one-character strings.  Rows and    *)
(* columns are 0-based as in the code; data[r + 1][c + 1] is the cell      *)
(* (r, c).                                                                 *)
(***************************************************************************)
EXTENDS Integers, Sequences, FiniteSets, TLC

\* ---------------------------------------------------------------- bounds
\* index of the last grid row (row 0 is the header row)
MaxRow == 1
\* index of the last grid column
MaxCol == 1
\* runs that hold a stream, a request or a timer at the same time
MaxRuns == 2
\* cancel requests in flight at the same time
MaxCancels == 1
\* cap of successCount and errorCount
MaxCount == 2
\* frames (blank ones included) the upstream event stream carries
MaxFrames == 3

VARIABLES
  data,                 \* useState<Cell[][]>: the grid, header row first
  range,                \* useState<Range | null>
  pending,              \* useState<Set<string>>: cells "r:c" as <<r, c>>
  busy,                 \* useState(false)
  successCount,         \* useState(0)
  errorCount,           \* useState(0)
  lastEnrichTime,       \* useState<number | null>: "null" or "ms"
  initialPendingCount,  \* useState<number>(0)
  currentTaskGroupId,   \* useState<string | null>: 0 is null
  esRef,                \* useRef<EventSource | null>: 0 is null, else the run
  run,                  \* the closures of each enrich call still alive
  timers,               \* armed setTimeout(…, 600000) timers, oldest first
  cancels,              \* cancelEnrichment calls awaiting the DELETE response
  last,                 \* the step taken last (history)
  sse                   \* the locals of one GET request (the SSE proxy) and its two streams

vars == <<data, range, pending, busy, successCount, errorCount, lastEnrichTime,
          initialPendingCount, currentTaskGroupId, esRef, run, timers, cancels, last, sse>>

\* the state of the page
pageVars == <<data, range, pending, busy, successCount, errorCount, lastEnrichTime,
              initialPendingCount, currentTaskGroupId, esRef, run, timers, cancels, last>>

Slots == 1..MaxRuns
Rows == 0..MaxRow
Cols == 0..MaxCol

Max(a, b) == IF a >= b THEN a ELSE b
Min(a, b) == IF a <= b THEN a ELSE b

\* ---------------------------------------------------------------- strings
Lower(ch) ==
  CASE ch = "A" -> "a"
    [] ch = "N" -> "n"
    [] ch = "Z" -> "z"
    [] OTHER -> ch

IsAlnum(ch) == ch \in {"a", "n", "z", "c", "o", "t", "e", "1", "2"}

RECURSIVE MapLower(_)
MapLower(s) == IF s = <<>> THEN <<>> ELSE <<Lower(Head(s))>> \o MapLower(Tail(s))

\* norm: (s || '').toLowerCase().replace(/[^a-z0-9]+/g, '').trim()
norm(s) == SelectSeq(MapLower(s), IsAlnum)

\* headers: the header row's values
headers(d) == [i \in 1..Len(d[1]) |-> d[1][i]]

\* headerIndex[n]: headers.forEach((h, i) => map[norm(h)] = i), so the last
\* column whose header normalizes to n; -1 stands for undefined
headerIndex(hs, n) ==
  LET hit == {i \in 1..Len(hs) : norm(hs[i]) = n}
  IN IF hit = {} THEN -1 ELSE (CHOOSE i \in hit : \A j \in hit : j <= i) - 1

\* targetHeaders.findIndex((th) => norm(th) === nk), 0-based, -1 if none
findIndex(ths, nk) ==
  LET hit == {i \in 1..Len(ths) : norm(ths[i]) = nk}
  IN IF hit = {} THEN -1 ELSE (CHOOSE i \in hit : \A j \in hit : i <= j) - 1

\* ---------------------------------------------------------------- pending
addPending(prev, cells) == prev \cup cells

clearPending(prev, cells) == IF prev = {} THEN prev ELSE prev \ cells

\* ---------------------------------------------------------------- selection
NoRange == [start |-> [row |-> -1, column |-> -1], end |-> [row |-> -1, column |-> -1]]

\* onSelect: clamp both corners to the grid, then normalize
normRange(d, r) ==
  LET maxRow == Len(d) - 1
      maxCol == Len(d[1]) - 1
      s == [row |-> Max(0, Min(maxRow, r.start.row)), column |-> Max(0, Min(maxCol, r.start.column))]
      e == [row |-> Max(0, Min(maxRow, r.end.row)), column |-> Max(0, Min(maxCol, r.end.column))]
  IN [start |-> [row |-> Min(s.row, e.row), column |-> Min(s.column, e.column)],
      end |-> [row |-> Max(s.row, e.row), column |-> Max(s.column, e.column)]]

Point(r, c) == [row |-> r, column |-> c]

\* the selections a user makes in the model: the header cell of the last column
\* (what addColumn leaves selected), the first data row, the data rows of the
\* last column, and the latter dragged upwards from below the grid
Selections ==
  { [start |-> Point(0, MaxCol), end |-> Point(0, MaxCol)],
    [start |-> Point(1, 0), end |-> Point(1, MaxCol)],
    [start |-> Point(1, MaxCol), end |-> Point(MaxRow, MaxCol)],
    [start |-> Point(MaxRow + 1, MaxCol), end |-> Point(1, MaxCol)] }

\* enrich: the saved selection bounds
startRowOf(rg) == Max(1, rg.start.row)
endRowOf(rg) == Max(startRowOf(rg), rg.end.row)

selectedCellsOf(rg) ==
  {<<r, c>> : r \in startRowOf(rg)..endRowOf(rg), c \in rg.start.column..rg.end.column}

\* enrich: rowsPayload, one entry per row, in ascending row order
rowsPayloadOf(d, rg) ==
  LET sr == startRowOf(rg)
      sc == rg.start.column
      hs == headers(d)
      tCols == [i \in 1..(rg.end.column - sc + 1) |-> sc + i - 1]
  IN [k \in 1..(endRowOf(rg) - sr + 1) |->
        [row |-> sr + k - 1,
         targetHeaders |-> [i \in 1..Len(tCols) |-> IF tCols[i] + 1 <= Len(hs) THEN hs[tCols[i] + 1] ELSE <<>>],
         targetCols |-> tCols]]

\* ---------------------------------------------------------------- runs
EmptyMap == [x \in {} |-> 0]

IdleRun == [phase |-> "idle", cells |-> {}, rows |-> <<>>, hdr |-> <<>>,
            run_map |-> EmptyMap, wrote |-> {}, failed |-> {}]

Armed(r) == \E i \in 1..Len(timers) : timers[i] = r

\* the stream of run r is open (readyState is not CLOSED)
Open(r) == run[r].phase = "streaming"

\* run r awaits the POST response
Submitting(r) == run[r].phase = "submitting"

\* mutant: the timer is left armed
clearTimeoutNot(ts, r) == ts

\* clearTimeout(timeout) of run r
clearTimeout(ts, r) == SelectSeq(ts, LAMBDA x : x # r)

\* the closure of run r after its stream is closed: kept only while its timer
\* can still fire (the timer callback uses selectedCells and es)
closed(rn, stillArmed) ==
  IF stillArmed
  THEN [IdleRun EXCEPT !.phase = "closed", !.cells = rn.cells]
  ELSE IdleRun


\* mutant: an empty id is paired like any other
RunMapOfAnyId(run_ids, rows) ==
  LET ok(i) == i <= Len(rows)
      keys == {run_ids[i] : i \in {j \in 1..Len(run_ids) : ok(j)}}
      lastOf(k) == CHOOSE i \in 1..Len(run_ids) :
                     /\ ok(i) /\ run_ids[i] = k
                     /\ \A j \in 1..Len(run_ids) : (ok(j) /\ run_ids[j] = k) => j <= i
  IN [k \in keys |-> [row |-> rows[lastOf(k)].row,
                      targetCols |-> rows[lastOf(k)].targetCols,
                      targetHeaders |-> rows[lastOf(k)].targetHeaders]]

\* POST: run_map = Object.fromEntries(run_ids.map((rid, i) => rid && rows[i] ? [rid, {…}] : [])):
\* an empty id or a position without a row yields no entry, a repeated id keeps its last entry
RunMapOf(run_ids, rows) ==
  LET ok(i) == run_ids[i] # "" /\ i <= Len(rows)
      keys == {run_ids[i] : i \in {j \in 1..Len(run_ids) : ok(j)}}
      lastOf(k) == CHOOSE i \in 1..Len(run_ids) :
                     /\ ok(i) /\ run_ids[i] = k
                     /\ \A j \in 1..Len(run_ids) : (ok(j) /\ run_ids[j] = k) => j <= i
  IN [k \in keys |-> [row |-> rows[lastOf(k)].row,
                      targetCols |-> rows[lastOf(k)].targetCols,
                      targetHeaders |-> rows[lastOf(k)].targetHeaders]]

\* ---------------------------------------------------------------- applyRowResult
\* mutant: a key that matches no header goes to the first target column
resolveColOrFirst(hs, k, targetHeaders, tCols) ==
  LET nk == norm(k)
      col == headerIndex(hs, nk)
      idx == findIndex(targetHeaders, nk)
  IN IF col = -1 /\ Len(targetHeaders) > 0 /\ idx >= 0
     THEN (IF idx + 1 <= Len(tCols) THEN tCols[idx + 1] ELSE -1)
     ELSE IF col = -1 /\ Len(tCols) > 0 THEN tCols[1] ELSE col

\* the column an output key resolves to (-1: none)
resolveCol(hs, k, targetHeaders, tCols) ==
  LET nk == norm(k)
      col == headerIndex(hs, nk)
      idx == findIndex(targetHeaders, nk)
  IN IF col = -1 /\ Len(targetHeaders) > 0 /\ idx >= 0
     THEN (IF idx + 1 <= Len(tCols) THEN tCols[idx + 1] ELSE -1)
     ELSE col

\* the for loop over Object.entries(obj): acc is [data, cleared, n]
RECURSIVE applyEntries(_, _, _, _, _, _)
applyEntries(obj, hs, row, targetHeaders, tCols, acc) ==
  IF obj = <<>> THEN acc
  ELSE LET e == Head(obj)
           col == resolveCol(hs, e.k, targetHeaders, tCols)
           hit == col >= 0 /\ col < Len(acc.data[1])
           inGrid == row + 1 <= Len(acc.data) /\ col + 1 <= Len(acc.data[row + 1])
           next == IF hit
                   THEN [data |-> IF inGrid
                                  THEN [acc.data EXCEPT ![row + 1][col + 1] = e.v]
                                  ELSE acc.data,
                         cleared |-> acc.cleared \cup {<<row, col>>},
                         n |-> acc.n + 1]
                   ELSE acc
       IN applyEntries(Tail(obj), hs, row, targetHeaders, tCols, next)

applyRowResult(d, hs, row, obj, targetHeaders, targetCols) ==
  LET fromHeaders == SelectSeq([i \in 1..Len(targetHeaders) |-> headerIndex(hs, norm(targetHeaders[i]))],
                               LAMBDA x : x >= 0)
      tCols == IF Len(targetCols) > 0 THEN targetCols ELSE fromHeaders
  IN applyEntries(obj, hs, row, targetHeaders, tCols, [data |-> d, cleared |-> {}, n |-> 0])

\* ---------------------------------------------------------------- events
\* const out = output.content || data.output; obj = out if it is a plain object, else {}
objOf(output) ==
  CASE output.content = "object" -> output.entries
    [] output.content = "scalar" -> <<>>
    [] OTHER -> output.own

\* run_map[runId] when runId is set and a key of run_map, else NoEntry (undefined)
NoEntry == [row |-> -1, targetCols |-> <<>>, targetHeaders |-> <<>>]

\* mutant: an id that is not a key is routed to some entry of the table
entryOfAny(rm, runId) ==
  IF runId # "" /\ runId \in DOMAIN rm THEN rm[runId]
  ELSE IF DOMAIN rm # {} THEN rm[CHOOSE k \in DOMAIN rm : TRUE] ELSE NoEntry

entryOf(rm, runId) == IF runId # "" /\ runId \in DOMAIN rm THEN rm[runId] ELSE NoEntry

isRunEvent(ev) == ev.type \in {"task_run.state", "task_run"}

\* the branch of handleEventData an event takes
kindOf(ev) ==
  CASE ev.type = "malformed" -> "malformed"
    [] isRunEvent(ev) /\ ev.status = "completed" /\ ev.output.has -> "completed"
    [] isRunEvent(ev) /\ ev.status = "completed" -> "completedNoOutput"
    [] isRunEvent(ev) /\ ev.status = "failed" -> "failed"
    [] ev.type = "task_group_status" /\ ev.isActive = "false" -> "inactive"
    [] OTHER -> "other"


\* ---------------------------------------------------------------- transport (GET)
\* an upstream frame: its event: line and the fields of its data: line
NoFrame == [event |-> "", type |-> "", status |-> "", run_id |-> "", output |-> FALSE,
            is_active |-> "undefined"]

\* the wire is a sequence of symbols: the two halves of a frame's text, a
\* newline, or other white space
Sym(k, f, n) == [k |-> k, f |-> f, n |-> n]
NL == Sym("nl", NoFrame, 0)
SP == Sym("sp", NoFrame, 0)

\* what the upstream writes for one item: the frame text, white space only, or nothing
Body(it) ==
  CASE it.body = "frame" -> <<Sym("part", it.f, 1), Sym("part", it.f, 2)>>
    [] it.body = "space" -> <<SP>>
    [] OTHER -> <<>>

\* the upstream's text: every item followed by a blank line
RECURSIVE Render(_)
Render(items) ==
  IF items = <<>> THEN <<>> ELSE Body(Head(items)) \o <<NL, NL>> \o Render(Tail(items))

\* buffer.split('\n\n'): the pieces between separators, from left to right
RECURSIVE Split(_, _)
Split(text, cur) ==
  IF text = <<>> THEN <<cur>>
  ELSE IF Len(text) >= 2 /\ text[1] = NL /\ text[2] = NL
       THEN <<cur>> \o Split(SubSeq(text, 3, Len(text)), <<>>)
       ELSE Split(Tail(text), Append(cur, Head(text)))

\* mutant: what the buffer held is not put in front of the chunk
appendChunkFresh(buffer, chunk) == chunk

\* buffer += decoder.decode(value, { stream: true })
appendChunk(buffer, chunk) == buffer \o chunk

\* where a read ended when it ended inside a frame, told from the piece after
\* the last separator: in the frame's text ("frame") or between the two
\* newlines that end it ("blank")
cutOf(tail) ==
  IF tail = <<>> THEN {}
  ELSE IF tail[Len(tail)] = NL THEN {"blank"}
  ELSE IF tail[Len(tail)].k = "part" /\ tail[Len(tail)].n = 1 THEN {"frame"}
  ELSE {}

\* mutant: the partial trailing piece is not kept across reads
dropTail(pieces) == <<>>

\* buffer = events.pop() || ''
keepTail(pieces) == pieces[Len(pieces)]

\* !eventStr.trim()
isBlank(piece) == \A i \in 1..Len(piece) : piece[i].k \in {"sp", "nl"}

\* the event:, id: and data: lines of a piece, read line by line
ParseFrame(piece) ==
  LET t == SelectSeq(piece, LAMBDA x : x.k # "nl")
  IN IF Len(t) = 2 /\ t[1].k = "part" /\ t[1].n = 1 /\ t[2] = Sym("part", t[1].f, 2)
     THEN t[1].f ELSE NoFrame

\* mutant: every completed frame is passed through as it came
needsBackfillNever(f) == FALSE

\* a completed task_run.state frame with a run id and no output
needsBackfill(f) ==
  /\ f.event = "task_run.state" /\ f.type = "task_run.state"
  /\ f.status = "completed" /\ f.run_id # "" /\ ~f.output

\* a task_group_status frame with is_active === false
isInactiveFrame(f) == f.event = "task_group_status" /\ f.is_active = "false"

\* safeEnqueue that forgets the failure and reports the frame as written (mutant)
safeEnqueueForgets(s, item) ==
  IF s.isControllerClosed THEN [s |-> s, ok |-> FALSE]
  ELSE IF s.downstream = "readable"
       THEN [s |-> [s EXCEPT !.out = Append(@, item)], ok |-> TRUE]
       ELSE [s |-> [s EXCEPT !.throws = @ + 1], ok |-> TRUE]

\* safeEnqueue: nothing once isControllerClosed; controller.enqueue throws when
\* the stream is no longer readable, which is caught and remembered
safeEnqueue(s, item) ==
  IF s.isControllerClosed THEN [s |-> s, ok |-> FALSE]
  ELSE IF s.downstream = "readable"
       THEN [s |-> [s EXCEPT !.out = Append(@, item)], ok |-> TRUE]
       ELSE [s |-> [s EXCEPT !.isControllerClosed = TRUE, !.throws = @ + 1], ok |-> FALSE]

\* the close after the loop: controller.close() closes a readable stream and
\* throws on any other, which is caught
closeController(s) ==
  IF s.isControllerClosed THEN s
  ELSE [s EXCEPT !.isControllerClosed = TRUE,
                 !.downstream = IF @ = "readable" THEN "closed" ELSE @]

\* the outer catch: controller.error() errors a readable stream and does
\* nothing to any other
errorController(s) ==
  IF s.isControllerClosed THEN s
  ELSE [s EXCEPT !.isControllerClosed = TRUE,
                 !.downstream = IF @ = "readable" THEN "errored" ELSE @]

\* the loop is never left on shouldExit (mutant)
exitNever(s) == FALSE

\* if (shouldExit && !isControllerClosed) break
exitAfterBatch(s) == s.shouldExit /\ ~s.isControllerClosed

\* start() returning: its locals are gone
returned(s) == [s EXCEPT !.pc = "returned", !.events = <<>>, !.buffer = <<>>]

\* after the for loop over one batch: leave the while loop or read again
endBatch(s) ==
  IF exitAfterBatch(s) THEN returned(closeController(s)) ELSE [s EXCEPT !.pc = "read"]

\* the for loop moving on to the next piece of the batch
nextPiece(s) ==
  LET t == [s EXCEPT !.events = Tail(@)]
  IN IF t.events = <<>> THEN endBatch(t) ELSE [t EXCEPT !.pc = "frames"]

\* if (!safeEnqueue(...)) return
afterWrite(res) == IF res.ok THEN nextPiece(res.s) ELSE returned(res.s)

\* the request as start() finds it: the upstream will send the items up
SseStart(up) ==
  [pc |-> "idle", up |-> up, wire |-> Render(up), nread |-> 0, buffer |-> <<>>,
   events |-> <<>>, out |-> <<>>, isControllerClosed |-> FALSE, shouldExit |-> FALSE,
   downstream |-> "readable", disconnected |-> FALSE, throws |-> 0, cuts |-> {}]

\* what the consumer receives: the text of a frame and whether its data carries
\* an output; fetch tells what the result fetch made for it returned
Emitted(piece, hasOutput, fetch) == [raw |-> piece, output |-> hasOutput, fetch |-> fetch]

\* ---------------------------------------------------------------- inputs
\* header rows the user can have typed before a run: all distinct, or two
\* headers that differ only in case and punctuation
HeaderNames == <<<<"n">>, <<"a", "_", "n">>, <<"e">>, <<"t">>>>

HeaderRows ==
  { [c \in 1..(MaxCol + 1) |-> HeaderNames[c]],
    [c \in 1..(MaxCol + 1) |-> IF c = 1 THEN <<"a", "_", "n">> ELSE <<"A", "N">>] }

InitialRow == [c \in 1..(MaxCol + 1) |-> IF c = 1 THEN <<"c", "o">> ELSE <<>>]

NoOutput == [has |-> FALSE, content |-> "missing", entries |-> <<>>, own |-> <<>>]

Entry(key, val) == [k |-> key, v |-> val]

Outputs ==
  { [has |-> TRUE, content |-> "object", own |-> <<>>,
     entries |-> <<Entry(<<"A", " ", "N">>, <<"1">>)>>],
    [has |-> TRUE, content |-> "object", own |-> <<>>,
     entries |-> <<Entry(<<"a", "_", "n">>, <<"1">>), Entry(<<"n">>, <<"1">>)>>],
    [has |-> TRUE, content |-> "object", own |-> <<>>,
     entries |-> <<Entry(<<"z">>, <<"1">>), Entry(<<"a", "_", "n">>, <<"1">>)>>],
    [has |-> TRUE, content |-> "object", own |-> <<>>,
     entries |-> <<Entry(<<"a", "_", "n">>, <<"1">>), Entry(<<"A", " ", "N">>, <<"1">>)>>],
    [has |-> TRUE, content |-> "scalar", own |-> <<>>, entries |-> <<>>],
    [has |-> TRUE, content |-> "missing", entries |-> <<>>,
     own |-> <<Entry(<<"n">>, <<"1">>)>>] }

\* job ids: j1 and j2 are ids the service returns, j3 is never returned, "" is a
\* missing or empty id
ServiceIds == {"j1", "j2"}
EventIds == ServiceIds \cup {"j3", ""}

Events ==
  [type : {"task_run.state"}, status : {"completed"},
   runId : EventIds, output : Outputs \cup {NoOutput}, isActive : {"undefined"}]
  \cup
  [type : {"task_run.state"}, status : {"failed"},
   runId : EventIds, output : {NoOutput}, isActive : {"undefined"}]
  \cup
  [type : {"task_run"}, status : {"completed", "failed", "running"},
   runId : {"j1"}, output : {NoOutput}, isActive : {"undefined"}]
  \cup
  [type : {"task_group_status"}, status : {""}, runId : {""}, output : {NoOutput},
   isActive : {"true", "false", "undefined"}]
  \cup
  [type : {"other", "malformed"}, status : {""}, runId : {""}, output : {NoOutput},
   isActive : {"undefined"}]

\* run_ids of the add-runs response: any sequence of at most MaxRow + 1 ids
RunIdSeqs == UNION {[1..n -> ServiceIds \cup {""}] : n \in 0..(MaxRow + 1)}

\* the lifecycle's events: those of job j1 with the first output or none, the
\* group status events and an event of another type
LifeEvents ==
  {e \in Events : /\ e.type \in {"task_run.state", "task_group_status", "other"}
                  /\ e.runId \in {"j1", ""}
                  /\ e.type = "task_run.state" => e.runId = "j1"
                  /\ e.output.has => (e.output.content = "object" /\ Len(e.output.entries) = 1)}

LifeRunIdSeqs == {ids \in RunIdSeqs : Len(ids) <= 1 /\ \A i \in 1..Len(ids) : ids[i] = "j1"}

\* ids: the run_ids of the add-runs response a submitOk step received;
\* keys: the number of keys of the object a completed event handed to applyRowResult
Step(op, r, kind, id) ==
  [op |-> op, r |-> r, kind |-> kind, id |-> id, ids |-> <<>>, keys |-> 0]

\* ---------------------------------------------------------------- initial state
\* a grid of n data rows under the header row hs, everything else as constructed
InitPage(hs, n) ==
  /\ data = <<hs>> \o [r \in 1..n |-> InitialRow]
  /\ range = NoRange
  /\ pending = {}
  /\ busy = FALSE
  /\ successCount = 0
  /\ errorCount = 0
  /\ lastEnrichTime = "null"
  /\ initialPendingCount = 0
  /\ currentTaskGroupId = 0
  /\ esRef = 0
  /\ run = [r \in Slots |-> IdleRun]
  /\ timers = <<>>
  /\ cancels = 0
  /\ last = Step("init", 0, "", "")

\* the page alone: no GET request is under way
InitGrid(hs, n) == InitPage(hs, n) /\ sse = SseStart(<<>>)

InitWith(hs) == InitGrid(hs, MaxRow)

\* the grid of useState: distinct headers, names in column 0, the rest empty
Init == InitWith([c \in 1..(MaxCol + 1) |-> HeaderNames[c]])

\* the same grid after the user typed one of the header rows
InitEvents == \E hs \in HeaderRows : InitWith(hs)

\* ---------------------------------------------------------------- actions
\* onSelect (the Spreadsheet gets onSelect only while not busy)
Select(sel) ==
  /\ UNCHANGED sse
  /\ ~busy
  /\ range' = normRange(data, sel)
  /\ last' = Step("select", 0, "", "")
  /\ UNCHANGED <<data, pending, busy, successCount, errorCount, lastEnrichTime,
                 initialPendingCount, currentTaskGroupId, esRef, run, timers, cancels>>

\* enrich up to its await fetch(POST)
EnrichStart(r, S) ==
  /\ UNCHANGED sse
  /\ range # NoRange
  /\ ~busy
  /\ run[r].phase = "idle" /\ ~Armed(r)
  /\ \A q \in S : (run[q].phase = "idle" /\ ~Armed(q)) => r <= q
  /\ LET selectedCells == selectedCellsOf(range)
     IN /\ range' = NoRange
        /\ pending' = addPending(pending, selectedCells)
        /\ initialPendingCount' = Cardinality(selectedCells)
        /\ successCount' = 0
        /\ errorCount' = 0
        /\ busy' = TRUE
        /\ run' = [run EXCEPT ![r] = [phase |-> "submitting", cells |-> selectedCells,
                                      rows |-> rowsPayloadOf(data, range),
                                      hdr |-> headers(data), run_map |-> EmptyMap,
                                      wrote |-> {}, failed |-> {}]]
  /\ last' = Step("enrich", r, "", "")
  /\ UNCHANGED <<data, lastEnrichTime, currentTaskGroupId, esRef, timers, cancels>>

\* enrich: the POST fails (fetch rejects, or !res.ok) and the catch block runs
SubmitFail(r) ==
  /\ UNCHANGED sse
  /\ Submitting(r)
  /\ busy' = FALSE
  /\ currentTaskGroupId' = 0
  /\ pending' = clearPending(pending, run[r].cells)
  /\ run' = [run EXCEPT ![r] = IdleRun]
  /\ last' = Step("submitFail", r, "", "")
  /\ UNCHANGED <<data, range, successCount, errorCount, lastEnrichTime,
                 initialPendingCount, esRef, timers, cancels>>

\* mutant: no timer is armed
armTimerNot(ts, r) == ts

\* const timeout = setTimeout(…, 600000)
armTimer(ts, r) == Append(ts, r)

\* enrich: the POST answers { taskgroup_id, run_map }; the stream is opened and
\* the timer armed
SubmitOk(r, run_ids) ==
  /\ UNCHANGED sse
  /\ Submitting(r)
  /\ currentTaskGroupId' = r
  /\ esRef' = r
  /\ run' = [run EXCEPT ![r].phase = "streaming",
                        ![r].run_map = RunMapOf(run_ids, run[r].rows)]
  /\ timers' = armTimer(timers, r)
  /\ last' = [Step("submitOk", r, "", "") EXCEPT !.ids = run_ids]
  /\ UNCHANGED <<data, range, pending, busy, successCount, errorCount, lastEnrichTime,
                 initialPendingCount, cancels>>


\* handleEventData, completed run with output: apply it if the id is in run_map
OnCompleted(r, ev) ==
  LET meta == entryOf(run[r].run_map, ev.runId)
      res == applyRowResult(data, run[r].hdr, meta.row, objOf(ev.output),
                            meta.targetHeaders, meta.targetCols)
  IN IF meta # NoEntry
     THEN /\ successCount + res.n <= MaxCount
          /\ data' = res.data
          /\ pending' = IF res.n = 0 THEN pending ELSE clearPending(pending, res.cleared)
          /\ successCount' = successCount + res.n
          /\ run' = [run EXCEPT ![r].wrote = @ \cup {c \in res.cleared : c[1] + 1 <= Len(data)}]
          /\ UNCHANGED <<range, busy, errorCount, lastEnrichTime, initialPendingCount,
                         currentTaskGroupId, esRef, timers, cancels>>
     ELSE UNCHANGED <<data, range, pending, busy, successCount, errorCount, lastEnrichTime,
                      initialPendingCount, currentTaskGroupId, esRef, run, timers, cancels>>

\* mutant: only the first target column is given up
cellsToClearFirst(meta) == {<<meta.row, meta.targetCols[1]>>}

\* the cells a failed job gives up: (meta.row, col) for col of meta.targetCols
cellsToClear(meta) == {<<meta.row, meta.targetCols[i]>> : i \in 1..Len(meta.targetCols)}

\* setErrorCount(prev => prev + 1), placed before the run_map lookup
errorCountOnFailed(n, found) == n + 1

\* mutant: the entry of a failed job is taken out of run_map
OnFailedForgets(r, ev) ==
  /\ errorCount + 1 <= MaxCount
  /\ errorCount' = errorCount + 1
  /\ run' = [run EXCEPT ![r].run_map =
                [k \in DOMAIN run[r].run_map \ {ev.runId} |-> run[r].run_map[k]]]
  /\ UNCHANGED <<data, range, busy, pending, successCount, lastEnrichTime, initialPendingCount,
                 currentTaskGroupId, esRef, timers, cancels>>

\* handleEventData, failed run
OnFailed(r, ev) ==
  LET meta == entryOf(run[r].run_map, ev.runId)
  IN /\ errorCount + 1 <= MaxCount
     /\ errorCount' = errorCountOnFailed(errorCount, meta # NoEntry)
     /\ IF meta # NoEntry
        THEN /\ pending' = clearPending(pending, cellsToClear(meta))
             /\ run' = [run EXCEPT ![r].failed = @ \cup {ev.runId}]
        ELSE UNCHANGED <<pending, run>>
     /\ UNCHANGED <<data, range, busy, successCount, lastEnrichTime, initialPendingCount,
                    currentTaskGroupId, esRef, timers, cancels>>

\* mutant: the handler forgets clearPending(selectedCells)
OnInactiveKeepsPending(r) ==
  /\ run' = [run EXCEPT ![r] = IdleRun]
  /\ esRef' = 0
  /\ timers' = clearTimeout(timers, r)
  /\ lastEnrichTime' = "ms"
  /\ busy' = FALSE
  /\ currentTaskGroupId' = 0
  /\ UNCHANGED <<data, range, pending, successCount, errorCount, initialPendingCount, cancels>>

\* handleEventData, task_group_status with is_active === false
OnInactive(r) ==
  /\ run' = [run EXCEPT ![r] = IdleRun]
  /\ esRef' = 0
  /\ pending' = clearPending(pending, run[r].cells)
  /\ timers' = clearTimeout(timers, r)
  /\ lastEnrichTime' = "ms"
  /\ busy' = FALSE
  /\ currentTaskGroupId' = 0
  /\ UNCHANGED <<data, range, successCount, errorCount, initialPendingCount, cancels>>

\* mutant: an event the handler does not know ends the run
OnOtherCloses(r) ==
  /\ run' = [run EXCEPT ![r] = IdleRun]
  /\ esRef' = 0
  /\ busy' = FALSE
  /\ UNCHANGED <<data, range, pending, successCount, errorCount, lastEnrichTime,
                 initialPendingCount, currentTaskGroupId, timers, cancels>>

\* an event no branch of handleEventData takes, and evt.data that JSON.parse
\* rejects (caught and logged by the listener)
OnOther(r) ==
  UNCHANGED <<data, range, pending, busy, successCount, errorCount, lastEnrichTime,
              initialPendingCount, currentTaskGroupId, esRef, run, timers, cancels>>

\* one event delivered to the listeners of the open stream of run r
StreamEvent(r, ev) ==
  /\ UNCHANGED sse
  /\ Open(r)
  /\ last' = [Step("event", r, kindOf(ev), ev.runId) EXCEPT
                !.keys = IF kindOf(ev) = "completed" THEN Len(objOf(ev.output)) ELSE 0]
  /\ IF kindOf(ev) = "completed" THEN OnCompleted(r, ev)
     ELSE IF kindOf(ev) = "failed" THEN OnFailed(r, ev)
     ELSE IF kindOf(ev) = "inactive" THEN OnInactive(r)
     ELSE OnOther(r)

\* es.onerror (the wrapper clears the timer, then the original handler runs)
StreamError(r) ==
  /\ UNCHANGED sse
  /\ Open(r)
  /\ timers' = clearTimeout(timers, r)
  /\ run' = [run EXCEPT ![r] = IdleRun]
  /\ esRef' = 0
  /\ busy' = FALSE
  /\ currentTaskGroupId' = 0
  /\ pending' = clearPending(pending, run[r].cells)
  /\ last' = Step("error", r, "", "")
  /\ UNCHANGED <<data, range, successCount, errorCount, lastEnrichTime,
                 initialPendingCount, cancels>>

\* the setTimeout callback of run r; timers of equal delay expire in arming order
TimerFire(r) ==
  /\ UNCHANGED sse
  /\ timers # <<>>
  /\ r = Head(timers)
  /\ timers' = Tail(timers)
  /\ run' = [run EXCEPT ![r] = IdleRun]
  /\ esRef' = 0
  /\ pending' = clearPending(pending, run[r].cells)
  /\ busy' = FALSE
  /\ currentTaskGroupId' = 0
  /\ last' = Step("timeout", r, "", "")
  /\ UNCHANGED <<data, range, successCount, errorCount, lastEnrichTime,
                 initialPendingCount, cancels>>

\* mutant: the guard forgets the group id
cancelGuardBusyOnly(gid, b) == b

\* cancelEnrichment proceeds unless (!currentTaskGroupId || !busy)
cancelGuard(gid, b) == gid # 0 /\ b

\* cancelEnrichment returning at its guard
CancelNoop ==
  /\ UNCHANGED sse
  /\ ~cancelGuard(currentTaskGroupId, busy)
  /\ last' = Step("cancelNoop", 0, "", "")
  /\ UNCHANGED <<data, range, pending, busy, successCount, errorCount, lastEnrichTime,
                 initialPendingCount, currentTaskGroupId, esRef, run, timers, cancels>>

\* cancelEnrichment up to its await fetch(DELETE)
CancelStart ==
  /\ UNCHANGED sse
  /\ cancelGuard(currentTaskGroupId, busy)
  /\ cancels < MaxCancels
  /\ cancels' = cancels + 1
  /\ last' = Step("cancelStart", 0, "", "")
  /\ UNCHANGED <<data, range, pending, busy, successCount, errorCount, lastEnrichTime,
                 initialPendingCount, currentTaskGroupId, esRef, run, timers>>

\* what cancelEnrichment does to the timer of the run whose stream it closes
timersOnCancel(ts, r) == ts

\* cancelEnrichment after the DELETE request settled (whatever its outcome)
CancelFinish ==
  /\ UNCHANGED sse
  /\ cancels > 0
  /\ cancels' = cancels - 1
  /\ timers' = timersOnCancel(timers, esRef)
  /\ IF esRef # 0
     THEN run' = [run EXCEPT ![esRef] =
                    closed(run[esRef], \E i \in 1..Len(timers') : timers'[i] = esRef)]
     ELSE run' = run
  /\ esRef' = 0
  /\ pending' = {}
  /\ busy' = FALSE
  /\ currentTaskGroupId' = 0
  /\ lastEnrichTime' = "null"
  /\ successCount' = 0
  /\ errorCount' = 0
  /\ last' = Step("cancelFinish", esRef, "", "")
  /\ UNCHANGED <<data, range, initialPendingCount>>

\* the steps of the page with runs in the slots S, stream events E and add-runs
\* responses I
NextOver(S, E, I) ==
  \/ \E sel \in Selections : Select(sel)
  \/ \E r \in S : EnrichStart(r, S)
  \/ \E r \in S : SubmitFail(r)
  \/ \E r \in S, ids \in I : SubmitOk(r, ids)
  \/ \E r \in S, ev \in E : StreamEvent(r, ev)
  \/ \E r \in S : StreamError(r)
  \/ \E r \in S : TimerFire(r)
  \/ CancelNoop
  \/ CancelStart
  \/ CancelFinish

\* Lifecycle: up to MaxRuns closures alive at once, the initial grid, one job id
Next == NextOver(Slots, LifeEvents, LifeRunIdSeqs)

Spec == Init /\ [][Next]_vars

\* Reconciliation: one closure alive at a time, user-typed headers, all events
NextEvents == NextOver({1}, Events, RunIdSeqs)

SpecEvents == InitEvents /\ [][NextEvents]_vars

\* Submission: one closure alive at a time, the grid after addRow, add-runs
\* responses of up to one id more than the selection has rows
InitSubmit == InitGrid([c \in 1..(MaxCol + 1) |-> HeaderNames[c]], MaxRow + 1)

SubmitRunIdSeqs == UNION {[1..n -> ServiceIds \cup {""}] : n \in 0..(MaxRow + 2)}

NextSubmit == NextOver({1}, LifeEvents, SubmitRunIdSeqs)

SpecSubmit == InitSubmit /\ [][NextSubmit]_vars

\* ---------------------------------------------------------------- transport steps
\* the frames the upstream may send
RunState(status, run_id, output) ==
  [event |-> "task_run.state", type |-> "task_run.state", status |-> status,
   run_id |-> run_id, output |-> output, is_active |-> "undefined"]

GroupStatus(is_active) ==
  [event |-> "task_group_status", type |-> "task_group_status", status |-> "",
   run_id |-> "", output |-> FALSE, is_active |-> is_active]

UpFrames ==
  {RunState("completed", "j1", FALSE), RunState("completed", "j1", TRUE),
   RunState("completed", "", FALSE), GroupStatus("false"), GroupStatus("true")}

\* what the upstream sends between two separators
UpItems ==
  {[body |-> "frame", f |-> f] : f \in UpFrames}
    \cup {[body |-> "space", f |-> NoFrame], [body |-> "empty", f |-> NoFrame]}

UpStreams == UNION {[1..n -> UpItems] : n \in 1..MaxFrames}

\* what fetchRunResult resolves to: a result with an output, one without, or
\* null after an error
FetchOutcomes == {"output", "nooutput", "error"}

\* start(): the keep-alive comment is enqueued, then await fetch(streamUrl)
GetStart ==
  /\ sse.pc = "idle"
  /\ sse' = [sse EXCEPT !.pc = "connect"]
  /\ UNCHANGED pageVars

\* the upstream answered ok with a body
GetConnected ==
  /\ sse.pc = "connect"
  /\ sse' = [sse EXCEPT !.pc = "read"]
  /\ UNCHANGED pageVars

\* fetch rejected, !response.ok or no body: thrown into the outer catch
GetConnectFailed ==
  /\ sse.pc = "connect"
  /\ sse' = returned(errorController(sse))
  /\ UNCHANGED pageVars

\* reader.read() resolving with the next n symbols: buffer, split, pop
GetRead(n) ==
  /\ sse.pc = "read"
  /\ n \in 1..Len(sse.wire)
  /\ LET text == appendChunk(sse.buffer, SubSeq(sse.wire, 1, n))
         pieces == Split(text, <<>>)
         s == [sse EXCEPT !.wire = SubSeq(@, n + 1, Len(@)),
                          !.nread = @ + n,
                          !.cuts = @ \cup cutOf(pieces[Len(pieces)]),
                          !.events = SubSeq(pieces, 1, Len(pieces) - 1),
                          !.buffer = keepTail(pieces)]
     IN sse' = IF s.events = <<>> THEN endBatch(s) ELSE [s EXCEPT !.pc = "frames"]
  /\ UNCHANGED pageVars

\* reader.read() resolving with done
GetReadDone ==
  /\ sse.pc = "read"
  /\ sse.wire = <<>>
  /\ sse' = returned(closeController(sse))
  /\ UNCHANGED pageVars

\* reader.read() rejecting: thrown into the outer catch
GetReadFailed ==
  /\ sse.pc = "read"
  /\ sse' = returned(errorController(sse))
  /\ UNCHANGED pageVars

\* the task_group_status branch: enqueue under its own try, then shouldExit
onInactiveFrame(s, piece) ==
  IF s.isControllerClosed THEN nextPiece([s EXCEPT !.shouldExit = TRUE])
  ELSE IF s.downstream = "readable"
       THEN nextPiece([s EXCEPT !.out = Append(@, Emitted(piece, FALSE, "none")),
                                !.shouldExit = TRUE])
       ELSE returned([s EXCEPT !.isControllerClosed = TRUE, !.throws = @ + 1])

\* one turn of the for loop up to its await or its end
GetPiece ==
  /\ sse.pc = "frames"
  /\ LET piece == Head(sse.events)
         f == ParseFrame(piece)
     IN sse' = IF isBlank(piece) THEN nextPiece(sse)
               ELSE IF needsBackfill(f) THEN [sse EXCEPT !.pc = "backfill"]
               ELSE IF isInactiveFrame(f) THEN onInactiveFrame(sse, piece)
               ELSE afterWrite(safeEnqueue(sse, Emitted(piece, f.output, "none")))
  /\ UNCHANGED pageVars

\* await fetchRunResult settled: the enriched frame or the original one
GetBackfilled(outcome) ==
  /\ sse.pc = "backfill"
  /\ LET piece == Head(sse.events)
     IN sse' = afterWrite(safeEnqueue(sse, Emitted(piece, outcome = "output", outcome)))
  /\ UNCHANGED pageVars

\* the consumer cancels the response stream
ConsumerDisconnect ==
  /\ sse.pc # "idle"
  /\ sse.downstream = "readable"
  /\ sse' = [sse EXCEPT !.downstream = "cancelled", !.disconnected = TRUE]
  /\ UNCHANGED pageVars

NextTransport ==
  \/ GetStart
  \/ GetConnected
  \/ GetConnectFailed
  \/ \E n \in 1..(4 * MaxFrames) : GetRead(n)
  \/ GetReadDone
  \/ GetReadFailed
  \/ GetPiece
  \/ \E outcome \in FetchOutcomes : GetBackfilled(outcome)
  \/ ConsumerDisconnect

\* Transport: one GET request over every upstream of up to MaxFrames items,
\* cut into reads at every position
InitTransport ==
  /\ InitPage([c \in 1..(MaxCol + 1) |-> HeaderNames[c]], MaxRow)
  /\ \E up \in UpStreams : sse = SseStart(up)

SpecTransport == InitTransport /\ [][NextTransport]_vars


\* ---------------------------------------------------------------- claims
Active(r) == run[r].phase \in {"submitting", "streaming"}

ArmedIn(ts, r) == \E i \in 1..Len(ts) : ts[i] = r

IsEvent(step, kinds) == step.op = "event" /\ step.kind \in kinds

\* the run_map entry an event step was about, NoEntry if its id is no key
EntryOfStep(step) ==
  IF step.id # "" /\ step.id \in DOMAIN run[step.r].run_map
  THEN run[step.r].run_map[step.id] ELSE NoEntry

\* C1: at no time are two runs active (request outstanding or stream open), so
\* at no time is more than one event stream open
C1_SingleFlight ==
  /\ Cardinality({r \in Slots : Active(r)}) <= 1
  /\ Cardinality({r \in Slots : Open(r)}) <= 1

\* C2: per run at most one termination path runs its teardown: a timer fires
\* only for a run whose stream is still open, a stream that closes leaves its
\* timer disarmed, and a cancellation completes only while its run is in flight
C2_OneTerminationPath ==
  [][ /\ last'.op = "timeout" => Open(last'.r)
      /\ \A r \in Slots : (Open(r) /\ run'[r].phase # "streaming") => ~ArmedIn(timers', r)
      /\ last'.op = "cancelFinish" => busy ]_vars

\* C3: the timer of a run that has ended changes neither busy, pending, the
\* stream handle nor the group id, and a run starts only when no earlier run
\* holds an open stream or an armed timer
C3_RunIsolation ==
  [][ /\ (last'.op = "timeout" /\ ~Open(last'.r))
           => UNCHANGED <<busy, pending, esRef, currentTaskGroupId>>
      /\ last'.op = "enrich" => \A r \in Slots : ~Active(r) /\ ~Armed(r) ]_vars

\* C4: whenever busy is false the pending set is empty
C4_IdleMeansNoPending == ~busy => pending = {}

\* C5: a run starts with pending equal to the cells of rows
\* max(1, start.row)..end.row and columns start.col..end.col of the selection,
\* and while a run is active no step adds a cell to pending
C5_SeededThenShrinking ==
  [][ /\ last'.op = "enrich" =>
           pending' = {<<r, c>> : r \in Max(1, range.start.row)..range.end.row,
                                  c \in range.start.column..range.end.column}
      /\ (\E r \in Slots : Active(r)) => pending' \subseteq pending ]_vars

\* C6: a completed event, with or without output, whose job id is no key of
\* run_map leaves pending, successCount, errorCount and data unchanged
C6_UnknownCompletedIgnored ==
  [][ (IsEvent(last', {"completed", "completedNoOutput"}) /\ EntryOfStep(last') = NoEntry)
        => UNCHANGED <<pending, successCount, errorCount, data>> ]_vars

C6_Witness ==
  /\ IsEvent(last, {"completed"})
  /\ last.id # ""
  /\ EntryOfStep(last) = NoEntry
  /\ DOMAIN run[last.r].run_map # {}
  /\ pending # {}

\* C7: a failed event of a job of run_map removes the cells (entry.row, c), c in
\* entry.targetCols, from pending, adds one to errorCount, and leaves data and
\* successCount unchanged
C7_FailedKnownClears ==
  [][ (IsEvent(last', {"failed"}) /\ EntryOfStep(last') # NoEntry)
        => LET e == EntryOfStep(last')
           IN /\ pending' = pending \ {<<e.row, e.targetCols[i]>> : i \in 1..Len(e.targetCols)}
              /\ errorCount' = errorCount + 1
              /\ data' = data
              /\ successCount' = successCount ]_vars

C7_Witness ==
  /\ IsEvent(last, {"failed"})
  /\ EntryOfStep(last) # NoEntry
  /\ Len(EntryOfStep(last).targetCols) = 2
  /\ pending = {}
  /\ errorCount = 1
  /\ successCount = 0
  /\ busy

\* C8: a failed event whose job id is missing or no key of run_map leaves
\* errorCount, successCount, pending and data unchanged
C8_FailedUnknownIgnored ==
  [][ (IsEvent(last', {"failed"}) /\ EntryOfStep(last') = NoEntry)
        => UNCHANGED <<errorCount, successCount, pending, data>> ]_vars

\* C9: a group status event with is_active = false closes the stream of its
\* run, removes the run's cells from pending, clears busy, records the elapsed
\* time and keeps the counts and the data; events are processed only on a
\* stream that is open, hence none of that run afterwards
C9_InactiveFinalizes ==
  [][ /\ IsEvent(last', {"inactive"}) =>
           /\ run'[last'.r].phase # "streaming"
           /\ pending' \cap run[last'.r].cells = {}
           /\ ~busy'
           /\ lastEnrichTime' = "ms"
           /\ successCount' = successCount /\ errorCount' = errorCount
           /\ data' = data
      /\ last'.op = "event" => Open(last'.r) ]_vars

C9_Witness ==
  /\ IsEvent(last, {"inactive"})
  /\ ~busy
  /\ pending = {}
  /\ lastEnrichTime = "ms"
  /\ successCount = 1
  /\ errorCount = 0
  /\ initialPendingCount = 2

\* C10: at natural completion successCount is the number of cells of the run
\* that received a value, errorCount the number of jobs of run_map that
\* failed, pending is empty and busy is false
C10_CountsAtCompletion ==
  [][ IsEvent(last', {"inactive"}) =>
        /\ successCount' = Cardinality(run[last'.r].wrote \cap run[last'.r].cells)
        /\ errorCount' = Cardinality(run[last'.r].failed)
        /\ pending' = {}
        /\ ~busy' ]_vars

\* a step that is an invocation of cancelEnrichment
IsCancelCall(step) == step.op \in {"cancelStart", "cancelNoop"}

\* C11: when the timer of a run whose stream is still open fires, the stream is
\* closed, pending becomes empty, busy becomes false and no cell value changes
C11_TimeoutClears ==
  [][ (last'.op = "timeout" /\ Open(last'.r))
        => /\ run'[last'.r].phase # "streaming"
           /\ pending' = {}
           /\ ~busy'
           /\ data' = data ]_vars

\* C12: cancelEnrichment invoked while busy tears the run down in that step
\* (no stream open, pending empty, busy false, counts zero), and between an
\* invocation and its teardown no stream event changes data, pending or counts
C12_CancelImmediate ==
  [][ /\ (IsCancelCall(last') /\ busy)
           => /\ \A r \in Slots : ~Active(r)'
              /\ pending' = {}
              /\ ~busy'
              /\ successCount' = 0 /\ errorCount' = 0
      /\ (cancels > 0 /\ last'.op = "event")
           => UNCHANGED <<data, pending, successCount, errorCount>> ]_vars

\* C13: cancelEnrichment invoked while busy is false or the group id is null
\* sends no request and changes neither busy, pending, the counts, the elapsed
\* time, the stream handle, the open streams nor the data
C13_CancelIdleNoop ==
  [][ (IsCancelCall(last') /\ (~busy \/ currentTaskGroupId = 0))
        => UNCHANGED <<cancels, busy, pending, successCount, errorCount, lastEnrichTime,
                       esRef, run, data>> ]_vars

C13_Witness ==
  /\ last.op = "cancelNoop"
  /\ ~busy
  /\ lastEnrichTime = "ms"
  /\ successCount = 1
  /\ cancels = 0

\* the table entry of the job spec at position i
SpecEntry(rows, i) ==
  [row |-> rows[i].row, targetCols |-> rows[i].targetCols, targetHeaders |-> rows[i].targetHeaders]

\* C14 as stated: a successful submission returns as many ids as job specs,
\* the keys of run_map are the non-empty ids, and run_map[ids[i]] is the entry
\* of job spec i
C14_TablePairsAll ==
  [][ last'.op = "submitOk" =>
        LET ids == last'.ids
            rows == run[last'.r].rows
            rm == run'[last'.r].run_map
        IN /\ Len(ids) = Len(rows)
           /\ DOMAIN rm = {ids[i] : i \in {j \in 1..Len(ids) : ids[j] # ""}}
           /\ \A i \in 1..Len(ids) : ids[i] # "" => rm[ids[i]] = SpecEntry(rows, i) ]_vars

\* C14 amended: the keys of run_map are the non-empty ids at positions that
\* have a job spec, and run_map[id] is the entry of the job spec at the last
\* such position of id
C14_TablePairsUsable ==
  [][ last'.op = "submitOk" =>
        LET ids == last'.ids
            rows == run[last'.r].rows
            rm == run'[last'.r].run_map
            usable == {i \in 1..Len(ids) : ids[i] # "" /\ i <= Len(rows)}
        IN /\ DOMAIN rm = {ids[i] : i \in usable}
           /\ \A i \in usable :
                (\A j \in usable : j > i => ids[j] # ids[i]) => rm[ids[i]] = SpecEntry(rows, i) ]_vars

\* two job specs, three ids returned: a repeated id, then an id without job spec
C14_Witness ==
  /\ last.op = "submitOk"
  /\ Len(run[last.r].rows) = 2
  /\ last.ids = <<"j1", "j1", "j2">>
  /\ DOMAIN run[last.r].run_map = {"j1"}
  /\ run[last.r].run_map["j1"].row = 2

\* C15: after a failed submission the run has no run_map, no open stream and
\* no armed timer, busy is false, pending is empty and no cell value changed
C15_FailedSubmissionLeavesNothing ==
  [][ last'.op = "submitFail" =>
        /\ run'[last'.r].run_map = EmptyMap
        /\ run'[last'.r].phase \notin {"submitting", "streaming"}
        /\ ~ArmedIn(timers', last'.r)
        /\ ~busy'
        /\ pending' = {}
        /\ data' = data ]_vars

\* C16: enrich builds one job spec per row r with max(1, start.row) <= r <=
\* end.row, none for a selection of the header row only, in ascending row
\* order, each with targetCols start.column..end.column from left to right
\* and targetHeaders the headers of those columns
C16_JobSpecsPerRow ==
  [][ last'.op = "enrich" =>
        LET rows == run'[last'.r].rows
            lo == Max(1, range.start.row)
            hi == range.end.row
            n == IF hi >= lo THEN hi - lo + 1 ELSE 0
            sc == range.start.column
            w == range.end.column - sc + 1
        IN /\ Len(rows) = n
           /\ \A k \in 1..n :
                /\ rows[k].row = lo + k - 1
                /\ rows[k].targetCols = [i \in 1..w |-> sc + i - 1]
                /\ rows[k].targetHeaders = [i \in 1..w |-> data[1][sc + i]] ]_vars

\* ---------------------------------------------------------------- transport claims
\* the frame a delivered text parses to
FrameOf(item) == ParseFrame(item.raw)

\* the upstream items whose separator lies within the first n symbols read
Received(up, n) ==
  LET ks == {k \in 0..Len(up) : Len(Render(SubSeq(up, 1, k))) <= n}
  IN SubSeq(up, 1, CHOOSE k \in ks : \A j \in ks : j <= k)

\* the items that are frames, in their order
NonBlank(items) == SelectSeq(items, LAMBDA it : it.body = "frame")

\* the frames up to and including the first group-inactive one
UpToInactive(frames) ==
  LET is == {i \in 1..Len(frames) : isInactiveFrame(frames[i].f)}
  IN IF is = {} THEN frames
     ELSE SubSeq(frames, 1, CHOOSE i \in is : \A j \in is : i <= j)

\* a completed task_run.state frame with a run id and no output of its own
LacksOutput(f) ==
  /\ f.event = "task_run.state" /\ f.type = "task_run.state"
  /\ f.status = "completed" /\ f.run_id # "" /\ ~f.output

InactiveEmitted(out) == \E i \in 1..Len(out) : isInactiveFrame(FrameOf(out[i]))

C18_EveryFrameOnceInOrder ==
  LET all == NonBlank(sse.up)
      got == NonBlank(Received(sse.up, sse.nread))
  IN /\ Len(sse.out) <= Len(got)
     /\ \A i \in 1..Len(sse.out) :
          LET item == sse.out[i]
              f == all[i].f
          IN /\ item.raw = Body(all[i])
             /\ IF LacksOutput(f)
                THEN \/ item.output /\ item.fetch = "output"
                     \/ ~item.output /\ item.fetch \in {"nooutput", "error"}
                ELSE item.output = f.output /\ item.fetch = "none"
     /\ (sse.pc \in {"read", "returned"} /\ ~sse.disconnected) =>
          Len(sse.out) >= Len(UpToInactive(got))

C18_Witness ==
  /\ sse.pc = "read" /\ ~sse.disconnected
  /\ Len(sse.out) = 2 /\ Len(sse.up) = 3
  /\ LacksOutput(FrameOf(sse.out[1])) /\ ~sse.out[1].output
  /\ FrameOf(sse.out[2]) = GroupStatus("true")
  /\ Len(sse.buffer) = 1 /\ sse.buffer[1].k = "part"

\* C19 (as stated): once a group-inactive frame has been delivered, no further
\* frame is delivered and nothing more is read from the upstream.
C19_NothingAfterInactive ==
  [][ InactiveEmitted(sse.out) => (sse'.out = sse.out /\ sse'.nread = sse.nread) ]_vars

\* C19 (amended): once a group-inactive frame has been delivered, nothing more is
\* read from the upstream; the transport never waits for another read, and the
\* only frames it still delivers are the ones left of the batch in hand.
C19_NoReadAfterInactive ==
  [][ /\ InactiveEmitted(sse'.out) => sse'.pc # "read"
      /\ InactiveEmitted(sse.out) =>
           /\ sse'.nread = sse.nread
           /\ sse'.out # sse.out => (sse.events # <<>> /\ sse'.out = Append(sse.out, sse'.out[Len(sse'.out)])
                                                   /\ sse'.out[Len(sse'.out)].raw = Head(sse.events)) ]_vars

C19_Witness ==
  /\ sse.pc = "returned" /\ sse.downstream = "closed"
  /\ Len(sse.out) = 2 /\ isInactiveFrame(FrameOf(sse.out[1]))
  /\ sse.wire # <<>>

\* C20: once the consumer has disconnected, at most one write throws, inside the
\* transport, which then returns without writing again; the stream is never put
\* into the error state and nothing more is delivered.
C20_DisconnectTolerated ==
  /\ sse.throws <= 1
  /\ sse.throws = 1 => (sse.isControllerClosed /\ sse.pc = "returned")
  /\ sse.disconnected => sse.downstream = "cancelled"

C20_Witness ==
  /\ sse.disconnected /\ sse.throws = 1 /\ sse.pc = "returned"
  /\ Len(sse.out) = 1
  /\ Len(NonBlank(Received(sse.up, sse.nread))) = 3

\* ---------------------------------------------------------------- key resolution claims
\* a completed task_run.state event of job id carrying the output o
CompletedEvent(id, o) ==
  [type |-> "task_run.state", status |-> "completed", runId |-> id, output |-> o,
   isActive |-> "undefined"]

\* the step delivers a completed event with output o of a job of run_map
AppliesOutput(o) ==
  /\ IsEvent(last', {"completed"})
  /\ EntryOfStep(last') # NoEntry
  /\ StreamEvent(last'.r, CompletedEvent(last'.id, o))

\* the cells whose value the step changes, as <<row, column>>
ChangedCells ==
  {<<r, c>> \in Rows \X Cols :
     r + 1 <= Len(data) /\ c + 1 <= Len(data[r + 1]) /\ data'[r + 1][c + 1] # data[r + 1][c + 1]}

\* C21: for a completed event of a known job, every output key whose normal
\* form equals the normal form of a target header is written to that header's
\* cell in the job's row, the cell leaves pending and successCount grows by one
\* for each such key
C21_NormalizedKeyFills ==
  [][ \A o \in Outputs : AppliesOutput(o) =>
        LET e == EntryOfStep(last')
            obj == objOf(o)
            fits == {<<i, j>> \in (1..Len(obj)) \X (1..Len(e.targetHeaders)) :
                       norm(obj[i].k) = norm(e.targetHeaders[j])}
        IN /\ \A p \in fits :
                /\ data'[e.row + 1][e.targetCols[p[2]] + 1] = obj[p[1]].v
                /\ <<e.row, e.targetCols[p[2]]>> \notin pending'
           /\ successCount' >= successCount + Cardinality({p[1] : p \in fits}) ]_vars

\* C22: an output key that is character for character a target header, while
\* another header is equal to it only after normalization, is written to the
\* column of the header it equals exactly
C22_ExactBeforeNormalized ==
  [][ \A o \in Outputs : AppliesOutput(o) =>
        LET e == EntryOfStep(last')
            obj == objOf(o)
            hs == headers(data)
        IN \A i \in 1..Len(obj), j \in 1..Len(e.targetHeaders) :
             (/\ obj[i].k = e.targetHeaders[j]
              /\ \E c \in 1..Len(hs) : hs[c] # obj[i].k /\ norm(hs[c]) = norm(obj[i].k))
               => /\ data'[e.row + 1][e.targetCols[j] + 1] = obj[i].v
                  /\ <<e.row, e.targetCols[j]>> \notin pending' ]_vars

\* C23: the i-th output key, when its normal form is the normal form of no
\* header and the job has an i-th target column, is written to that column
C23_PositionalFallback ==
  [][ \A o \in Outputs : AppliesOutput(o) =>
        LET e == EntryOfStep(last')
            obj == objOf(o)
            hs == headers(data)
        IN \A i \in 1..Len(obj) :
             (/\ \A c \in 1..Len(hs) : norm(hs[c]) # norm(obj[i].k)
              /\ i <= Len(e.targetCols))
               => /\ data'[e.row + 1][e.targetCols[i] + 1] = obj[i].v
                  /\ <<e.row, e.targetCols[i]>> \notin pending' ]_vars

\* C24: when an output key of a completed event has the normal form of no
\* header, the step writes, clears and counts exactly what the other keys of the
\* event call for, and the stream stays open with busy unchanged
C24_UnresolvedKeyDropped ==
  [][ \A o \in Outputs : AppliesOutput(o) =>
        LET e == EntryOfStep(last')
            obj == objOf(o)
            hs == headers(data)
            miss == {i \in 1..Len(obj) : \A c \in 1..Len(hs) : norm(hs[c]) # norm(obj[i].k)}
            hits == (1..Len(obj)) \ miss
            cellOf(i) == <<e.row, headerIndex(hs, norm(obj[i].k))>>
        IN miss # {} =>
             /\ successCount' = successCount + Cardinality(hits)
             /\ pending' = pending \ {cellOf(i) : i \in hits}
             /\ ChangedCells \subseteq {cellOf(i) : i \in hits}
             /\ \A i \in hits : data'[cellOf(i)[1] + 1][cellOf(i)[2] + 1] = obj[i].v
             /\ run'[last'.r].phase = "streaming"
             /\ busy' = busy ]_vars

\* an event of two keys, one matching no header, the other written to column 1
C24_Witness ==
  /\ IsEvent(last, {"completed"})
  /\ EntryOfStep(last) # NoEntry
  /\ last.keys = 2
  /\ run[last.r].wrote = {<<1, 1>>}
  /\ successCount = 1
  /\ pending = {<<1, 0>>}
  /\ data[2][1] = <<"c", "o">>
  /\ data[2][2] = <<"1">>
  /\ busy

\* C29: a step changes cell values only when it delivers a completed event of a
\* job of run_map, and then only in that job's row and target columns
C29_WritesOnlyTargets ==
  [][ ChangedCells # {} =>
        /\ IsEvent(last', {"completed"})
        /\ EntryOfStep(last') # NoEntry
        /\ LET e == EntryOfStep(last')
           IN ChangedCells \subseteq {<<e.row, e.targetCols[j]>> : j \in 1..Len(e.targetCols)} ]_vars

\* ---------------------------------------------------------------- stream claims
\* C25: an event of a kind the handler does not know, and an event whose data
\* does not parse, changes neither cell values, pending, the counts nor busy,
\* and leaves the stream of its run open with its timer and table as they were
C25_UnknownEventIgnored ==
  [][ IsEvent(last', {"other", "malformed"}) =>
        /\ UNCHANGED <<data, pending, successCount, errorCount, busy, esRef, timers,
                       currentTaskGroupId, lastEnrichTime>>
        /\ run'[last'.r] = run[last'.r]
        /\ run'[last'.r].phase = "streaming" ]_vars

\* unparseable data arrives in the middle of a run: one cell written before it,
\* one still awaited, the stream open
C25_Witness ==
  /\ IsEvent(last, {"malformed"})
  /\ Open(last.r)
  /\ busy
  /\ successCount = 1
  /\ pending = {<<1, 0>>}
  /\ ArmedIn(timers, last.r)

\* C26: when the stream of a run reports an error, the stream is closed, the
\* run's timer is disarmed, every cell of the run leaves pending, busy becomes
\* false and no cell value changes
C26_StreamErrorEndsRun ==
  [][ last'.op = "error" =>
        /\ Open(last'.r)
        /\ run'[last'.r].phase # "streaming"
        /\ ~ArmedIn(timers', last'.r)
        /\ pending' \cap run[last'.r].cells = {}
        /\ ~busy'
        /\ data' = data ]_vars

\* the stream fails after one cell of the run was written: the value stays
C26_Witness ==
  /\ last.op = "error"
  /\ ~busy
  /\ pending = {}
  /\ successCount = 1
  /\ data[2][2] = <<"1">>
  /\ timers = <<>>
  /\ \A r \in Slots : run[r] = IdleRun

\* ---------------------------------------------------------------- liveness
\* the POST request of run r is answered
SubmitAnswered(r) == SubmitFail(r) \/ \E ids \in LifeRunIdSeqs : SubmitOk(r, ids)

\* the events of the lifecycle that end a run or write a cell
LiveEvents == {e \in LifeEvents : kindOf(e) \in {"inactive", "completed"}}

NextLive == NextOver(Slots, LiveEvents, LifeRunIdSeqs)

\* every request is answered and every armed timer expires
SpecLive ==
  /\ Init /\ [][NextLive]_vars
  /\ \A r \in Slots : WF_vars(SubmitAnswered(r)) /\ WF_vars(TimerFire(r))

\* C27: whenever busy is true it is false again later, and every run that is
\* awaiting its submit response or holding an open stream ends later
C27_RunsEnd ==
  /\ busy ~> ~busy
  /\ \A r \in Slots : Active(r) ~> ~Active(r)

\* a run that no event, error or cancellation ended: its timer did
C27_Witness ==
  /\ last.op = "timeout"
  /\ ~busy
  /\ initialPendingCount > 0
  /\ successCount = 0 /\ errorCount = 0
  /\ timers = <<>>
  /\ \A r \in Slots : run[r] = IdleRun

\* ---------------------------------------------------------------- table claims
\* C28: an event is reconciled only by a run whose submit response has been
\* received, against the run_map that response carried, and while the stream
\* of a run stays open its run_map does not change
C28_TableFixedBeforeEvents ==
  [][ /\ last'.op = "event" => run[last'.r].phase = "streaming"
      /\ last'.op = "submitOk" =>
           /\ run[last'.r].phase = "submitting"
           /\ run'[last'.r].phase = "streaming"
           /\ run'[last'.r].run_map = RunMapOf(last'.ids, run[last'.r].rows)
      /\ \A r \in Slots :
           (run[r].phase = "streaming" /\ run'[r].phase = "streaming")
             => run'[r].run_map = run[r].run_map ]_vars

\* a failed and a completed event reconciled against the table of job j1
C28_Witness ==
  /\ IsEvent(last, {"completed"})
  /\ Open(last.r)
  /\ DOMAIN run[last.r].run_map = {"j1"}
  /\ errorCount = 1 /\ successCount = 1

\* ---------------------------------------------------------------- chunking claims
\* the texts delivered, in order
RawsOf(out) == [i \in 1..Len(out) |-> out[i].raw]

\* the texts of the frames among items, in order
BodiesOf(items) == [i \in 1..Len(items) |-> Body(items[i])]

\* the response stream was closed by the transport: the upstream ended or the
\* group-inactive frame was seen, and the consumer stayed connected
EndedGracefully == sse.pc = "returned" /\ sse.downstream = "closed"

\* C30 (as stated): whatever the reads were, a stream that ended gracefully has
\* delivered the frames that one-symbol reads deliver: every non-blank upstream
\* frame up to and including the first group-inactive one, each once and intact.
C30_SameFramesAnyChunking ==
  EndedGracefully => RawsOf(sse.out) = BodiesOf(UpToInactive(NonBlank(sse.up)))

\* C30 (amended): whatever the reads were, a stream that ended gracefully has
\* delivered, each once and intact, every non-blank upstream frame up to and
\* including the first group-inactive one, followed by exactly the frames that
\* were completely received by the read that brought the group-inactive frame.
C30_SameFramesUpToInactive ==
  EndedGracefully =>
    LET all == NonBlank(sse.up)
        got == NonBlank(Received(sse.up, sse.nread))
    IN /\ RawsOf(sse.out) = BodiesOf(got)
       /\ Len(got) >= Len(UpToInactive(all))
       /\ SubSeq(RawsOf(sse.out), 1, Len(UpToInactive(all))) = BodiesOf(UpToInactive(all))

\* three frames delivered intact although one read ended inside a frame's text
\* and another between the two newlines that end a frame
C30_Witness ==
  /\ EndedGracefully
  /\ sse.cuts = {"frame", "blank"}
  /\ Len(sse.out) = 3
  /\ isInactiveFrame(FrameOf(sse.out[3]))

\* ---------------------------------------------------------------- page invariants
\* C31: during a run successCount plus the size of pending is at most
\* initialPendingCount, so the progress initialPendingCount - |pending| is
\* within 0..initialPendingCount and successCount is at most initialPendingCount
C31_ProgressWithinSeed ==
  busy => /\ successCount + Cardinality(pending) <= initialPendingCount
          /\ Cardinality(pending) <= initialPendingCount

\* C33: when busy is false no stream is open and esRef is null, and esRef, when
\* not null, is the open stream of the run that set the current group id
C33_HandleIsActiveStream ==
  /\ ~busy => (esRef = 0 /\ \A r \in Slots : ~Open(r))
  /\ esRef # 0 => (Open(esRef) /\ busy /\ currentTaskGroupId = esRef)

\* ---------------------------------------------------------------- grid edits
\* two more drags of the user: down the last initial column from the header to
\* below the grid and along the first data row to beyond the last column; after
\* onSelect's clamping they are a full column and a full row of any grid
FullSelections ==
  { [start |-> Point(0, MaxCol), end |-> Point(MaxRow + 2, MaxCol)],
    [start |-> Point(1, 0), end |-> Point(1, MaxCol + 2)] }

\* the cells the user types into and what they type
EditCells == {<<1, MaxCol>>}
Typed == {<<"x">>}

\* Array.prototype.filter((_, idx) => idx !== i)
removeAt(s, i) == [k \in 1..(Len(s) - 1) |-> IF k < i + 1 THEN s[k] ELSE s[k + 1]]

\* addColumn: every row gets an empty cell, the new header cell is selected
addColumn ==
  /\ data' = [r \in 1..Len(data) |-> Append(data[r], <<>>)]
  /\ range' = [start |-> Point(0, Len(data[1])), end |-> Point(0, Len(data[1]))]

\* addRow: a row of empty cells as wide as the header row
addRow ==
  /\ data' = Append(data, [c \in 1..(IF Len(data[1]) > 0 THEN Len(data[1]) ELSE 5) |-> <<>>])
  /\ range' = range

\* deleteColumn
deleteColumn ==
  IF range = NoRange \/ Len(data[1]) <= 1
  THEN UNCHANGED <<data, range>>
  ELSE /\ data' = [r \in 1..Len(data) |-> removeAt(data[r], range.start.column)]
       /\ range' = NoRange

\* deleteRow
deleteRow ==
  IF range = NoRange \/ range.start.row = 0 \/ Len(data) <= 2
  THEN UNCHANGED <<data, range>>
  ELSE /\ data' = removeAt(data, range.start.row)
       /\ range' = NoRange

clearSelection == range' = NoRange /\ data' = data

isFullColumn ==
  range.start.row = 0 /\ range.end.row = Len(data) - 1 /\ range.start.column = range.end.column

isFullRow ==
  /\ range.start.column = 0 /\ range.end.column = Len(data[1]) - 1
  /\ range.start.row = range.end.row /\ range.start.row > 0

\* the grid grows by at most one row and one column beyond the initial grid
canAddColumn == Len(data[1]) < MaxCol + 2
canAddRow == Len(data) < MaxRow + 2

Keys == {"k", "j", "backspace", "escape"}

\* the keydown handler; mod+enter is enrich (EnrichStart)
KeyDown(key) ==
  /\ UNCHANGED sse
  /\ last' = Step("key", 0, key, "")
  /\ IF busy
     THEN IF key = "escape" THEN clearSelection ELSE UNCHANGED <<data, range>>
     ELSE IF key = "k" THEN canAddColumn /\ addColumn
     ELSE IF key = "j" THEN canAddRow /\ addRow
     ELSE IF key = "backspace"
          THEN IF range = NoRange THEN UNCHANGED <<data, range>>
               ELSE IF isFullColumn THEN deleteColumn
               ELSE IF isFullRow THEN deleteRow
               ELSE UNCHANGED <<data, range>>
     ELSE clearSelection
  /\ UNCHANGED <<pending, busy, successCount, errorCount, lastEnrichTime,
                 initialPendingCount, currentTaskGroupId, esRef, run, timers, cancels>>

\* the + Column and + Row buttons (disabled while busy)
Click(button) ==
  /\ UNCHANGED sse
  /\ ~busy
  /\ last' = Step("click", 0, button, "")
  /\ IF button = "addColumn" THEN canAddColumn /\ addColumn ELSE canAddRow /\ addRow
  /\ UNCHANGED <<pending, busy, successCount, errorCount, lastEnrichTime,
                 initialPendingCount, currentTaskGroupId, esRef, run, timers, cancels>>

\* the Spreadsheet's onChange after the user typed v into cell (row, col)
onChange(row, col, v) ==
  /\ UNCHANGED sse
  /\ row + 1 <= Len(data) /\ col + 1 <= Len(data[1])
  /\ last' = Step("change", 0, "", "")
  /\ data' = IF busy THEN data ELSE [data EXCEPT ![row + 1][col + 1] = v]
  /\ UNCHANGED <<range, pending, busy, successCount, errorCount, lastEnrichTime,
                 initialPendingCount, currentTaskGroupId, esRef, run, timers, cancels>>

\* Editing: one closure alive at a time, the initial grid, and the user's edits
NextUser ==
  \/ NextOver({1}, LiveEvents, LifeRunIdSeqs)
  \/ \E sel \in FullSelections : Select(sel)
  \/ \E key \in Keys : KeyDown(key)
  \/ \E button \in {"addColumn", "addRow"} : Click(button)
  \/ \E cell \in EditCells, v \in Typed : onChange(cell[1], cell[2], v)

SpecUser == Init /\ [][NextUser]_vars

\* a user step changes neither the grid nor the selection and starts no run; a
\* stream step changes cells only by applying a completed event
GridFrozen ==
  /\ Len(data') = Len(data)
  /\ Len(data'[1]) = Len(data[1])
  /\ data' # data => (last'.op = "event" /\ last'.kind = "completed")
  /\ range' = range
  /\ last'.op # "enrich"

\* C32: while busy is true, and from the start of a run to its end, user
\* actions change neither the grid nor the selection and start no run: cells
\* change only through completed events and the row and column counts are fixed
C32_GridFrozenDuringRun ==
  [][(busy \/ \E r \in Slots : Active(r)) => GridFrozen]_vars

====
